  IF ~gate.next
  THEN [data |-> {}] @@ Outcome(GateResponse("profile", gate), users, hist)
  ELSE IF admin = {}
  THEN [data |-> {}]
         @@ Outcome(HandlerResponse("profile", gate, 404, "AdminNotFound"), users, hist)
  ELSE [data |-> admin] @@ Outcome(HandlerResponse("profile", gate, 200, ""), users, hist)

---- MODULE Spec2Model ----
(***************************************************************************)
(* Admin backend of the news/video platform: the credential store, the     *)
(* token codec (jsonwebtoken), the lockout bookkeeping of the User model,  *)
(* the login route, the authentication and admin middlewares and the       *)
(* routes they guard.                                                      *)
(*                                                                         *)
(* Time is counted in whole ticks of the clock `now`; one tick stands for  *)
(* one hour, so the lock duration of two hours is 2.                       *)
(***************************************************************************)
EXTENDS Integers, FiniteSets, Sequences, TLC

VARIABLES
  users,      \* the User collection: a function from the ids of the stored accounts to their documents
  now,        \* Date.now(), in ticks
  secretSet,  \* whether process.env.JWT_SECRET is present in this deployment
  resp,       \* the response to the request being handled (and what the request
              \* pipeline did), Idle between requests
  hist,       \* history (not program state): per account, the failed password
              \* verifications in a row since the last successful one (counted up
              \* to MaxLoginAttempts)
  docs,       \* a content collection (news, videos, feedback or users, whichever
              \* the list request is for): its documents in insertion order, each
              \* given by its rating
  listResp,   \* the response to the list request being handled, NoList between requests
  tasks,      \* the requests in flight whose handlers are suspended at a store
              \* operation: per task, where it is and what it has read
  items       \* the News and Video collections: a function from the ids given
              \* out so far to the documents (a deleted one leaves its id behind)

authVars == <<users, now, secretSet, resp, hist>>
listVars == <<docs, listResp>>
vars == <<users, now, secretSet, resp, hist, docs, listResp, tasks, items>>

-----------------------------------------------------------------------------
(* Bounds and constants *)

\* The clock stops at MaxTime.
MaxTime == 3

\* Threshold of the lockout policy (five strikes).
MaxLoginAttempts == 5

\* Lock duration, in ticks (2 hours).
LockDuration == 2

\* Lifetime of an issued token, in ticks (process.env.JWT_EXPIRE, '7d' unless
\* configured): longer than the lock lasts.
JWT_EXPIRE == 3

\* The ids an account or a token subject can have.
UserIds == {1, 2}

AdminEmail == "admin@abhaya.com"
OtherEmail == "alice@example.com"
DefaultPassword == "admin123"

Roles == {"user", "admin", "super_admin"}
Statuses == {"active", "inactive", "suspended"}
Passwords == {"admin123", "secret1"}

\* The two keys in play: the value of process.env.JWT_SECRET when it is set, and
\* the fallback written in middleware/auth.
EnvSecret == "env-secret"
FallbackSecret == "your-secret-key-change-in-production"

Min(a, b) == IF a < b THEN a ELSE b

-----------------------------------------------------------------------------
(* Token codec: jsonwebtoken's sign and verify.  A token is a payload and   *)
(* a signature; the signature binds the key to the payload it was made for. *)

Signature(payload, key) == [key |-> key, over |-> payload]

jwt_sign(payload, key) == [payload |-> payload, sig |-> Signature(payload, key)]

\* "ok", or the name of the error jwt.verify throws.  The signature is checked
\* before the expiry; a token is expired as soon as the clock reaches exp.
jwt_verify(token, key, clock) ==
  IF token.sig # Signature(token.payload, key) THEN "JsonWebTokenError"
  ELSE IF clock >= token.payload.exp THEN "TokenExpiredError"
  ELSE "ok"

\* The key routes/auth signs with: process.env.JWT_SECRET, with no fallback.
\* The empty set stands for undefined.
AuthRoutesSecret == IF secretSet THEN {EnvSecret} ELSE {}

\* The key middleware/auth verifies with: process.env.JWT_SECRET or the fallback.
MiddlewareSecret == IF secretSet THEN EnvSecret ELSE FallbackSecret

\* generateToken(user): the set holding the token, or the empty set when jwt.sign
\* throws ('secretOrPrivateKey must have a value').
generateToken(id, user) ==
  { jwt_sign([userId |-> id, role |-> user.role, isGuest |-> FALSE,
              exp |-> now + JWT_EXPIRE], k) : k \in AuthRoutesSecret }

-----------------------------------------------------------------------------
(* The User model's lockout methods. *)

\* virtual isLocked: lockUntil is set (non-zero) and in the future.
isLocked(u) == u.lockUntil # 0 /\ u.lockUntil > now

comparePassword(u, candidate) == u.password = candidate

\* A failed password verification: count it, and lock when the count reaches the threshold.
incLoginAttempts(u) ==
  LET n == u.loginAttempts + 1 IN
  [u EXCEPT !.loginAttempts = n,
            !.lockUntil = IF n >= MaxLoginAttempts THEN now + LockDuration ELSE @]

resetLoginAttempts(u) == [u EXCEPT !.loginAttempts = 0, !.lockUntil = 0]

NewUser(email, password, role, status) ==
  [email |-> email, password |-> password, role |-> role, status |-> status,
   loginAttempts |-> 0, lockUntil |-> 0]

-----------------------------------------------------------------------------
(* Requests and responses *)

NoStreak == [pwFails |-> 0]

\* A response: the route, the HTTP status, the error class of the message, the
\* token in the body (if any), req.user as the middleware attached it (if it
\* did), and whether the route handler ran.
Response(op, code, error) ==
  [op |-> op, code |-> code, error |-> error, token |-> {}, user |-> {}, ran |-> FALSE]

\* No request is being handled.
Idle == Response("none", 0, "")

\* Emails a login request may carry: the default admin's (in two spellings), one
\* of no account, and one that is not an email address.  (The holder of account
\* 2 takes part with the token of an earlier session.)
LoginEmails == {"admin@abhaya.com", "ADMIN@ABHAYA.COM", "nobody@example.com", "not-an-email"}

\* Passwords a request may carry; the empty one fails notEmpty().
LoginPasswords == Passwords \cup {""}

isEmail(e) == e # "not-an-email"

toLowerCase(e) == IF e = "ADMIN@ABHAYA.COM" THEN "admin@abhaya.com" ELSE e

\* validateLogin: body('email').isEmail(), body('password').notEmpty()
validateLogin(email, password) == isEmail(email) /\ password # ""

\* User.findOne({ email }): the ids of the accounts with that email.
findByEmail(email) == {id \in DOMAIN users : users[id].email = email}

\* Variant of loginBranch that verifies the password before it looks at the lock.
loginBranch_passwordFirst(u, password) ==
  IF u.role \notin {"admin", "super_admin"} THEN "not-admin"
  ELSE IF u.status # "active" /\ ~isLocked(u) THEN "inactive"
  ELSE IF ~comparePassword(u, password) THEN "bad-password"
  ELSE IF isLocked(u) THEN "locked"
  ELSE "ok"

\* Variant of loginBranch without the lock check.
loginBranch_noLock(u, password) ==
  IF u.role \notin {"admin", "super_admin"} THEN "not-admin"
  ELSE IF u.status # "active" THEN "inactive"
  ELSE IF ~comparePassword(u, password) THEN "bad-password"
  ELSE "ok"

\* Which return of POST /login a request for account u with this password takes.
loginBranch(u, password) ==
  IF u.role \notin {"admin", "super_admin"} THEN "not-admin"
  ELSE IF isLocked(u) THEN "locked"
  ELSE IF u.status # "active" THEN "inactive"
  ELSE IF ~comparePassword(u, password) THEN "bad-password"
  ELSE "ok"

\* The history of an account after a login attempt that took branch b.
Streak(h, b) ==
  [pwFails |-> CASE b = "bad-password" -> Min(h.pwFails + 1, MaxLoginAttempts)
                 [] b = "ok" -> 0
                 [] OTHER -> h.pwFails]

\* What a handler does with a request in the current state: the response it
\* sends, and the store (and history) it leaves.
Outcome(r, u, h) == [resp |-> r, users |-> u, hist |-> h]

\* POST /api/auth/login
postLogin(email, password) ==
  LET found == findByEmail(toLowerCase(email)) IN
  IF ~validateLogin(email, password)
  THEN Outcome(Response("login", 400, "ValidationFailed"), users, hist)
  ELSE IF found = {}
  THEN Outcome(Response("login", 401, "InvalidCredentials"), users, hist)
  ELSE LET id == CHOOSE i \in found : TRUE
           u == users[id]
           b == loginBranch(u, password)
           token == generateToken(id, u)
           h == [hist EXCEPT ![id] = Streak(@, b)]
       IN
       CASE b = "not-admin" -> Outcome(Response("login", 403, "NotAdmin"), users, h)
         [] b = "locked" -> Outcome(Response("login", 423, "AccountLocked"), users, h)
         [] b = "inactive" -> Outcome(Response("login", 403, "AccountInactive"), users, h)
         [] b = "bad-password" ->
              \* await user.incLoginAttempts()
              Outcome(Response("login", 401, "InvalidCredentials"),
                      [users EXCEPT ![id] = incLoginAttempts(u)], h)
         [] b = "ok" ->
              \* await user.resetLoginAttempts(), then generateToken(user); when
              \* jwt.sign throws, next(error) reaches the global handler: 500
              Outcome(IF token = {}
                      THEN Response("login", 500, "InternalError")
                      ELSE [Response("login", 200, "") EXCEPT !.token = token, !.ran = TRUE],
                      [users EXCEPT ![id] = resetLoginAttempts(u)], h)

\* The handler's outcome becomes the state; the response is on its way.
Handle(o) ==
  /\ resp' = o.resp
  /\ users' = o.users
  /\ hist' = o.hist
  /\ UNCHANGED <<now, secretSet, listVars, tasks, items>>

\* A request is handled in one step, when no other is being handled.
Login(email, password) ==
  /\ resp = Idle
  /\ Handle(postLogin(email, password))

-----------------------------------------------------------------------------
(* The Authorization headers a request may carry. *)

\* Payloads of the tokens clients present: of either subject id, of a member or
\* of a guest, expiring as a token issued at time 0 does.
TokenPayloads ==
  [userId : UserIds, role : {"admin"}, isGuest : BOOLEAN, exp : {JWT_EXPIRE}]

\* Tokens signed with one of the two secrets of the deployment.
SignedTokens == {jwt_sign(p, k) : p \in TokenPayloads, k \in {EnvSecret, FallbackSecret}}

\* Tokens whose payload was altered after signing: a member's token turned into a guest's.
TamperedTokens ==
  {[t EXCEPT !.payload.isGuest = TRUE] : t \in {x \in SignedTokens : ~x.payload.isGuest}}

Tokens == SignedTokens \cup TamperedTokens

AnyToken == CHOOSE t \in SignedTokens : TRUE

\* No header, a header of another scheme, or 'Bearer <token>'.
Headers ==
  {[scheme |-> "none", token |-> AnyToken], [scheme |-> "Basic", token |-> AnyToken]}
    \cup {[scheme |-> "Bearer", token |-> t] : t \in Tokens}

-----------------------------------------------------------------------------
(* middleware/auth *)

\* What a middleware did: status 0 and next = TRUE when it called next(), else
\* the status and error class of the response it sent.
Passed(user) == [next |-> TRUE, code |-> 0, error |-> "", user |-> {user}]
Refused(code, error) == [next |-> FALSE, code |-> code, error |-> error, user |-> {}]

GuestContext(decoded) ==
  [userId |-> decoded.userId, email |-> "", role |-> "guest", status |-> "", isGuest |-> TRUE]

IdentityContext(id, user) ==
  [userId |-> id, email |-> user.email, role |-> user.role, status |-> user.status,
   isGuest |-> FALSE]

\* Variant of authDecoded that checks the lock before the status.
authDecoded_lockFirst(decoded) ==
  IF decoded.isGuest THEN Passed(GuestContext(decoded))
  ELSE IF decoded.userId \notin DOMAIN users THEN Refused(401, "UserNotFound")
  ELSE LET user == users[decoded.userId] IN
       IF isLocked(user) THEN Refused(423, "AccountLocked")
       ELSE IF user.status # "active" THEN Refused(403, "AccountInactive")
       ELSE Passed(IdentityContext(decoded.userId, user))

\* Variant of authDecoded that loads the subject before it looks at isGuest.
authDecoded_lookupFirst(decoded) ==
  IF decoded.userId \notin DOMAIN users THEN Refused(401, "UserNotFound")
  ELSE LET user == users[decoded.userId] IN
       IF decoded.isGuest THEN Passed(GuestContext(decoded))
       ELSE IF user.status # "active" THEN Refused(403, "AccountInactive")
       ELSE IF isLocked(user) THEN Refused(423, "AccountLocked")
       ELSE Passed(IdentityContext(decoded.userId, user))

\* Variant of authDecoded that stops accepting a member's token once the
\* account's password is no longer the one it was issued under.
authDecoded_passwordBound(decoded) ==
  IF decoded.isGuest THEN Passed(GuestContext(decoded))
  ELSE IF decoded.userId \notin DOMAIN users THEN Refused(401, "UserNotFound")
  ELSE LET user == users[decoded.userId] IN
       IF user.status # "active" THEN Refused(403, "AccountInactive")
       ELSE IF isLocked(user) THEN Refused(423, "AccountLocked")
       ELSE IF user.password # DefaultPassword THEN Refused(401, "InvalidToken")
       ELSE Passed(IdentityContext(decoded.userId, user))

\* Variant of authDecoded that does not look at the account's status.
authDecoded_noStatus(decoded) ==
  IF decoded.isGuest THEN Passed(GuestContext(decoded))
  ELSE IF decoded.userId \notin DOMAIN users THEN Refused(401, "UserNotFound")
  ELSE LET user == users[decoded.userId] IN
       IF isLocked(user) THEN Refused(423, "AccountLocked")
       ELSE Passed(IdentityContext(decoded.userId, user))

\* authMiddleware, after jwt.verify returned the decoded payload.
authDecoded(decoded) ==
  IF decoded.isGuest THEN Passed(GuestContext(decoded))
  ELSE IF decoded.userId \notin DOMAIN users THEN Refused(401, "UserNotFound")
  ELSE LET user == users[decoded.userId] IN
       IF user.status # "active" THEN Refused(403, "AccountInactive")
       ELSE IF isLocked(user) THEN Refused(423, "AccountLocked")
       ELSE Passed(IdentityContext(decoded.userId, user))

\* Variant of authCatch that does not tell the errors of jwt.verify apart.
authCatch_oneMessage(errorName) == Refused(401, "InvalidToken")

\* authMiddleware's catch block: the response for an error thrown by jwt.verify.
authCatch(errorName) ==
  IF errorName = "JsonWebTokenError" THEN Refused(401, "InvalidToken")
  ELSE IF errorName = "TokenExpiredError" THEN Refused(401, "ExpiredToken")
  ELSE Refused(500, "InternalError")

authMiddleware(header) ==
  IF header.scheme # "Bearer" THEN Refused(401, "NoToken")
  ELSE LET verdict == jwt_verify(header.token, MiddlewareSecret, now) IN
       IF verdict = "ok" THEN authDecoded(header.token.payload)
       ELSE authCatch(verdict)

\* Variant of adminMiddleware that only checks that req.user is set.
adminMiddleware_anyUser(reqUser) == reqUser # {}

\* adminMiddleware: req.user is set and its role is admin or super_admin.
adminMiddleware(reqUser) ==
  \E u \in reqUser : u.role = "admin" \/ u.role = "super_admin"

\* router.use(authMiddleware); router.use(adminMiddleware): what the two gates
\* of the news, videos, feedback and admin routers do with a request.
routerGates(header) ==
  LET auth == authMiddleware(header) IN
  IF ~auth.next THEN auth
  ELSE IF adminMiddleware(auth.user) THEN auth
  ELSE [Refused(403, "Forbidden") EXCEPT !.user = auth.user]

\* The response a gate sent instead of calling next().
GateResponse(op, gate) == [Response(op, gate.code, gate.error) EXCEPT !.user = gate.user]

\* The response of a handler that ran behind the gates.
HandlerResponse(op, gate, code, error) ==
  [Response(op, code, error) EXCEPT !.user = gate.user, !.ran = TRUE]

-----------------------------------------------------------------------------
(* Guarded routes *)

\* Any route of the news, videos or feedback router.  Their handlers work on
\* the content collections and leave the User collection alone.
ContentRouters == {"news", "videos", "feedback"}

contentRoute(router, header) ==
  LET gate == routerGates(header) IN
  Outcome(IF gate.next THEN HandlerResponse(router, gate, 200, "")
          ELSE GateResponse(router, gate),
          users, hist)

ContentRequest(router, header) ==
  /\ resp = Idle
  /\ Handle(contentRoute(router, header))

\* Status values a request body may carry; the last one fails isIn([...]).
BodyStatuses == Statuses \cup {"deleted"}

\* PUT /api/admin/users/:id/status
putUserStatus(header, id, status) ==
  LET gate == routerGates(header) IN
  IF ~gate.next
  THEN Outcome(GateResponse("admin", gate), users, hist)
  ELSE IF status \notin Statuses
  THEN Outcome(HandlerResponse("admin", gate, 400, "ValidationFailed"), users, hist)
  ELSE IF id \notin DOMAIN users
  THEN Outcome(HandlerResponse("admin", gate, 404, "NotFound"), users, hist)
  ELSE Outcome(HandlerResponse("admin", gate, 200, ""),
               [users EXCEPT ![id].status = status], hist)

UpdateUserStatus(header, id, status) ==
  /\ resp = Idle
  /\ Handle(putUserStatus(header, id, status))

\* The value of a property the object does not have.
Undefined == 0

\* obj[name], as JavaScript reads a property.
Field(obj, name) == IF name \in DOMAIN obj THEN obj[name] ELSE Undefined

\* User.findById(id): the stored account with that id, if any.  No account has
\* the id undefined (Mongoose looks for _id: null).
findById(id) == {i \in DOMAIN users : i = id}

\* The outcome of a request that reads an account: data holds the id of the
\* account in the body, if there is one.
Read(r, data) == [resp |-> r, users |-> users, hist |-> hist, data |-> data]

\* GET /api/admin/profile
getProfile(header) ==
  LET gate == routerGates(header)
      reqUser == CHOOSE c \in gate.user : TRUE
      admin == findById(Field(reqUser, "_id"))
  IN
  IF ~gate.next THEN Read(GateResponse("profile", gate), {})
  ELSE IF admin = {} THEN Read(HandlerResponse("profile", gate, 404, "AdminNotFound"), {})
  ELSE Read(HandlerResponse("profile", gate, 200, ""), admin)

Profile(header) ==
  /\ resp = Idle
  /\ Handle(getProfile(header))

\* POST /api/auth/logout
postLogout(header) ==
  LET gate == authMiddleware(header) IN
  Outcome(IF gate.next THEN HandlerResponse("logout", gate, 200, "")
          ELSE GateResponse("logout", gate),
          users, hist)

Logout(header) ==
  /\ resp = Idle
  /\ Handle(postLogout(header))

\* Passwords a change-password body may carry: "" fails notEmpty() as the old
\* password, "short" fails isLength({ min: 6 }) as the new one.
OldPasswords == Passwords \cup {""}
NewPasswords == Passwords \cup {"short"}

\* POST /api/auth/change-password
postChangePassword(header, oldPassword, newPassword) ==
  LET gate == authMiddleware(header)
      id == (CHOOSE c \in gate.user : TRUE).userId
  IN
  IF ~gate.next
  THEN Outcome(GateResponse("change-password", gate), users, hist)
  ELSE IF oldPassword = "" \/ Len(newPassword) < 6
  THEN Outcome(HandlerResponse("change-password", gate, 400, "ValidationFailed"), users, hist)
  ELSE IF id \notin DOMAIN users
  THEN Outcome(HandlerResponse("change-password", gate, 404, "NotFound"), users, hist)
  ELSE IF ~comparePassword(users[id], oldPassword)
  THEN Outcome(HandlerResponse("change-password", gate, 401, "InvalidCredentials"),
               users, hist)
  ELSE Outcome(HandlerResponse("change-password", gate, 200, ""),
               [users EXCEPT ![id].password = newPassword], hist)

ChangePassword(header, oldPassword, newPassword) ==
  /\ resp = Idle
  /\ Handle(postChangePassword(header, oldPassword, newPassword))

-----------------------------------------------------------------------------
(* server.js: the routes outside the routers, and the response bodies *)

\* GET /health
getHealth == Outcome(Response("health", 200, ""), users, hist)

\* GET /
getRoot == Outcome(Response("root", 200, ""), users, hist)

\* app.use((req, res) => ...): any request no route matched.
notFoundHandler == Outcome(Response("no-route", 404, "EndpointNotFound"), users, hist)

Health ==
  /\ resp = Idle
  /\ Handle(getHealth)

Root ==
  /\ resp = Idle
  /\ Handle(getRoot)

NotFound ==
  /\ resp = Idle
  /\ Handle(notFoundHandler)

\* Values of process.env.NODE_ENV.
NodeEnvs == {"development", "production"}

\* The top-level keys of the JSON body of a response, as res.json() sends it
\* (a key whose value is undefined is not sent).
bodyKeys(r, nodeEnv) ==
  CASE r.op = "health" -> {"service", "status", "message", "timestamp", "uptime"}
    [] r.op = "root" -> {"message", "version", "service", "endpoints"}
    [] r.op = "no-route" -> {"error", "message", "service"}
    [] r.error = "ValidationFailed" -> {"success", "message", "errors"}
    [] r.error = "InternalError" /\ r.op = "login" ->
         \* global error handler
         {"success", "message"}
           \cup (IF nodeEnv = "development" THEN {"error", "stack"} ELSE {})
    [] r.error = "InternalError" /\ r.op # "login" ->
         \* authMiddleware's catch
         {"success", "message"} \cup (IF nodeEnv = "development" THEN {"error"} ELSE {})
    [] r.op = "login" /\ r.code = 200 -> {"success", "message", "data"}
    [] r.op \in ContentRouters /\ r.code = 200 -> {"success", "data"}
    [] OTHER -> {"success", "message"}

\* The 'message' of the body of an error response: the string of the
\* res.status(...).json(...) that sent it, in POST /login (op = "login"), in
\* another handler that ran, or in a middleware in front of the route.
message(r) ==
  CASE r.error = "NoToken" -> "Access denied. No token provided."
    [] r.error = "UserNotFound" -> "Token is not valid. User not found."
    [] r.error = "InvalidToken" -> "Invalid token."
    [] r.error = "ExpiredToken" -> "Token expired. Please login again."
    [] r.error = "InvalidCredentials" ->
         IF r.op = "login" THEN "Invalid credentials" ELSE "Old password is incorrect"
    [] r.error = "NotAdmin" -> "Access denied. Admin privileges required."
    [] r.error = "Forbidden" -> "Access denied. Admin privileges required."
    [] r.error = "AccountLocked" ->
         IF r.op = "login"
         THEN "Account is temporarily locked due to too many failed login attempts."
         ELSE "Account is temporarily locked."
    [] r.error = "AccountInactive" ->
         IF r.op = "login" THEN "Your account is not active. Please contact support."
         ELSE "Account is not active. Please contact support."
    [] r.error = "ValidationFailed" -> "Validation failed"
    [] r.error = "NotFound" -> "User not found"
    [] r.error = "AdminNotFound" -> "Admin not found"
    [] r.error = "InternalError" ->
         IF r.op = "login" THEN "An internal server error occurred."
         ELSE "Server error in authentication."
    [] OTHER -> ""

-----------------------------------------------------------------------------
(* Boot *)

\* Variant of seedAdminUserIn that resets the password of an existing admin
\* account and leaves its counter and lock alone.
seedAdminUserIn_passwordOnly(store) ==
  LET found == {id \in DOMAIN store : store[id].email = AdminEmail}
      free == UserIds \ DOMAIN store
  IN
  IF found = {}
  THEN LET id == CHOOSE i \in free : \A j \in free : i <= j
       IN (id :> NewUser(AdminEmail, DefaultPassword, "admin", "active")) @@ store
  ELSE LET id == CHOOSE i \in found : TRUE
       IN [store EXCEPT ![id].password = DefaultPassword]

\* The User collection as seedAdminUser leaves it: the default admin is created,
\* or reset when its password is not the default one, it is locked or it has
\* failed attempts, or left as it is.
seedAdminUserIn(store) ==
  LET found == {id \in DOMAIN store : store[id].email = AdminEmail}
      free == UserIds \ DOMAIN store
  IN
  IF found = {}
  THEN LET id == CHOOSE i \in free : \A j \in free : i <= j
       IN (id :> NewUser(AdminEmail, DefaultPassword, "admin", "active")) @@ store
  ELSE LET id == CHOOSE i \in found : TRUE
           admin == store[id]
       IN IF admin.password # DefaultPassword \/ isLocked(admin) \/ admin.loginAttempts > 0
          THEN [store EXCEPT ![id].password = DefaultPassword,
                             ![id].loginAttempts = 0,
                             ![id].lockUntil = 0]
          ELSE store

\* seedAdminUser, run after the database connection is made (at every start of
\* the process).  An account it creates or resets starts a new history.
seedAdminUser ==
  /\ resp = Idle
  /\ users' = seedAdminUserIn(users)
  /\ hist' = [id \in UserIds |->
                IF id \in DOMAIN users' /\ (id \notin DOMAIN users \/ users'[id] # users[id])
                THEN NoStreak ELSE hist[id]]
  /\ UNCHANGED <<now, secretSet, resp, listVars, tasks, items>>

\* The response is sent; the next request, tick or restart can follow.
Deliver ==
  /\ resp # Idle
  /\ resp' = Idle
  /\ UNCHANGED <<users, now, secretSet, hist, listVars, tasks, items>>

\* The clock advances.
Tick ==
  /\ resp = Idle
  /\ now < MaxTime
  /\ now' = now + 1
  /\ UNCHANGED <<users, secretSet, resp, hist, listVars, tasks, items>>

-----------------------------------------------------------------------------
(* List endpoints: GET / of the news, videos and feedback routers and      *)
(* GET /users of the admin router, for requests that passed the two gates. *)

\* A content collection holds at most MaxDocs documents.
MaxDocs == 3

\* limit when the query string has none; the largest limit the validators accept.
DefaultLimit == 20
MaxLimit == 100

\* What JSON.stringify makes of Infinity and NaN (null), where a number is expected.
JsonNull == -1

\* Values of the rating field of a stored document: absent (the schema does not
\* require it), or a Number between 1 and 5 (the schema asks no more).
Ratings == {"none", "1", "4.5", "5"}

\* The keys of the rating histogram.
HistogramKeys == {"1", "2", "3", "4", "5"}

\* Twice the rating, for comparisons; an absent field sorts first.
Twice(r) == CASE r = "1" -> 2 [] r = "4.5" -> 9 [] r = "5" -> 10 [] OTHER -> 0

\* Query-string values; "" is an absent parameter.
PageValues == {"", "0", "1", "2", "3"}
LimitValues == {"", "0", "1", "2", "101", "1e1"}
SortValues == {"", "rating", "bogus"}
OrderValues == {"", "asc", "sideways"}
RatingFilters == {"", "1"}

ListQueries ==
  [page : PageValues, limit : LimitValues, sort : SortValues, order : OrderValues,
   rating : RatingFilters]

\* The number JavaScript's arithmetic makes of a query-string value.
ToNumber(s) ==
  CASE s = "0" -> 0 [] s = "1" -> 1 [] s = "2" -> 2 [] s = "3" -> 3
    [] s = "101" -> 101 [] s = "1e1" -> 10

\* parseInt stops at the first character that is not a digit.
parseInt(s) == IF s = "1e1" THEN 1 ELSE ToNumber(s)

\* express-validator's isInt({ min, max }) and isInt({ min }): digits only, in range.
isInt(s, min, max) == s # "1e1" /\ min <= ToNumber(s) /\ ToNumber(s) <= max
isIntMin(s, min) == s # "1e1" /\ min <= ToNumber(s)

\* const { page = 1, limit = 20, sort = 'createdAt', order = 'desc' } = req.query:
\* page and limit as arithmetic sees them, and as parseInt does.
pageNumber(q) == IF q.page = "" THEN 1 ELSE ToNumber(q.page)
limitNumber(q) == IF q.limit = "" THEN DefaultLimit ELSE ToNumber(q.limit)
pageParsed(q) == IF q.page = "" THEN 1 ELSE parseInt(q.page)
limitParsed(q) == IF q.limit = "" THEN DefaultLimit ELSE parseInt(q.limit)
sortField(q) == IF q.sort = "" THEN "createdAt" ELSE q.sort
sortDirection(q) == IF q.order = "" \/ q.order = "desc" THEN -1 ELSE 1

\* The documents (by position in the collection, which is their creation order)
\* a filter on the rating selects.
Matching(filter) == {i \in 1..Len(docs) : filter = "" \/ docs[i] = filter}

\* The value a document is sorted by: a field no document has compares equal.
SortKey(i, field) ==
  CASE field = "createdAt" -> i
    [] field = "rating" -> Twice(docs[i])
    [] OTHER -> 0

\* Document i comes before document j; ties are left in creation order.
Before(i, j, field, dir) ==
  IF SortKey(i, field) = SortKey(j, field) THEN i < j
  ELSE IF dir = 1 THEN SortKey(i, field) < SortKey(j, field)
  ELSE SortKey(i, field) > SortKey(j, field)

\* Model.find(filter).sort({ [field]: dir }), before skip and limit.
Sorted(filter, field, dir) ==
  LET S == Matching(filter)
      n == Cardinality(S)
      place(i) == 1 + Cardinality({j \in S : Before(j, i, field, dir)})
  IN [a \in 1..n |-> CHOOSE i \in S : place(i) = a]

\* The query a handler hands to the store.
StoreQuery(filter, field, dir, skip, limit) ==
  [filter |-> filter, sort |-> field, dir |-> dir, skip |-> skip, limit |-> limit]

\* .skip(skip).limit(limit): the store refuses a negative skip; a limit of 0
\* is no limit.
find(sq) ==
  LET all == Sorted(sq.filter, sq.sort, sq.dir)
      last == IF sq.limit = 0 \/ sq.skip + sq.limit > Len(all) THEN Len(all)
              ELSE sq.skip + sq.limit
  IN IF sq.skip < 0 THEN [error |-> TRUE, items |-> <<>>]
     ELSE [error |-> FALSE, items |-> SubSeq(all, sq.skip + 1, last)]

countDocuments(filter) == Cardinality(Matching(filter))

\* Math.ceil(total / limit), as it appears in the JSON body.
totalPagesOf(total, limit) ==
  IF limit = 0 THEN JsonNull ELSE (total + limit - 1) \div limit

\* ratingDistribution: five zeroes, then ratingDistribution[rating]++ for every
\* truthy rating pushed by the $group stage; ++ on a key that is not there
\* leaves NaN under a new key.
ratingDistribution(ratings) ==
  LET extra == {ratings[i] : i \in 1..Len(ratings)} \ (HistogramKeys \cup {"none"}) IN
  [k \in HistogramKeys \cup extra |->
     IF k \in HistogramKeys
     THEN Cardinality({i \in 1..Len(ratings) : ratings[i] = k})
     ELSE JsonNull]

\* A list response: the items (by position in the collection), the pagination
\* block, the histogram (feedback only) and the query the store was given.
ListResponse(op, code) ==
  [op |-> op, code |-> code, items |-> <<>>, total |-> 0, totalPages |-> 0,
   currentPage |-> 0, histogram |-> {}, query |-> {}]

NoList == ListResponse("none", 0)

\* The body of the list handlers, from the store query on.
listWith(op, q, sq) ==
  LET found == find(sq)
      total == countDocuments(sq.filter)
  IN IF found.error
     THEN [ListResponse(op, 500) EXCEPT !.query = {sq}]
     ELSE [ListResponse(op, 200) EXCEPT
             !.items = found.items, !.total = total,
             !.totalPages = totalPagesOf(total, limitNumber(q)),
             !.currentPage = pageParsed(q), !.query = {sq}]

\* GET /api/news and GET /api/videos: no validator runs; the rating parameter
\* is none of theirs.
getContent(op, q) ==
  listWith(op, q, StoreQuery("", sortField(q), sortDirection(q),
                             (pageNumber(q) - 1) * limitNumber(q), limitParsed(q)))

\* The validators GET /api/feedback and GET /api/admin/users share.
validPaging(q) ==
  /\ q.page = "" \/ isIntMin(q.page, 1)
  /\ q.limit = "" \/ isInt(q.limit, 1, MaxLimit)

\* GET /api/feedback
getFeedback(q) ==
  IF ~(/\ validPaging(q)
       /\ q.rating = "" \/ isInt(q.rating, 1, 5)
       /\ q.sort \in {"", "createdAt", "rating", "feedback"}
       /\ q.order \in {"", "asc", "desc"})
  THEN ListResponse("feedback", 400)
  ELSE LET r == listWith("feedback", q,
                         StoreQuery(q.rating, sortField(q), sortDirection(q),
                                    (pageNumber(q) - 1) * limitNumber(q), limitParsed(q)))
       IN IF r.code = 200 THEN [r EXCEPT !.histogram = {ratingDistribution(docs)}] ELSE r

\* GET /api/admin/users (validateUserQuery has no rule for sort and order)
getUsers(q) ==
  IF ~validPaging(q)
  THEN ListResponse("users", 400)
  ELSE listWith("users", q,
                StoreQuery("", sortField(q), sortDirection(q),
                           (pageNumber(q) - 1) * limitNumber(q), limitNumber(q)))

\* GET /api/feedback/stats/summary: the histogram of the documents created
\* since startDate, which are the ones from position start on.
getFeedbackStats(start) ==
  [ListResponse("feedback-stats", 200) EXCEPT
     !.histogram = {ratingDistribution(SubSeq(docs, start, Len(docs)))}]

\* The list handler of each router.
listHandler(op, q) ==
  CASE op = "feedback" -> getFeedback(q)
    [] op = "users" -> getUsers(q)
    [] OTHER -> getContent(op, q)

ListRouters == {"news", "videos", "feedback", "users"}

ListRequest(op, q) ==
  /\ listResp = NoList
  /\ listResp' = listHandler(op, q)
  /\ UNCHANGED <<authVars, docs, tasks, items>>

StatsRequest(start) ==
  /\ listResp = NoList
  /\ listResp' = getFeedbackStats(start)
  /\ UNCHANGED <<authVars, docs, tasks, items>>

DeliverList ==
  /\ listResp # NoList
  /\ listResp' = NoList
  /\ UNCHANGED <<authVars, docs, tasks, items>>

\* A document is added to the collection (by a create route, or by the service
\* that takes the users' feedback).
InsertDoc(rating) ==
  /\ listResp = NoList
  /\ Len(docs) < MaxDocs
  /\ docs' = Append(docs, rating)
  /\ UNCHANGED <<authVars, listResp, tasks, items>>

-----------------------------------------------------------------------------
(* Interleaved requests.  Every store read or write is a suspension point:  *)
(* a handler runs up to its next await, and other requests run in between.  *)
(* POST /register and POST /login are taken one store operation at a time.  *)

TaskIds == {1, 2}

\* A task that handles no request.
IdleTask ==
  [pc |-> "idle", op |-> "none", email |-> "", password |-> "", role |-> "",
   id |-> 0, snap |-> {}, code |-> 0, token |-> {}, created |-> FALSE]

\* The task has sent its response.
Done(task, code) == [task EXCEPT !.pc = "done", !.code = code]

\* Bodies of POST /register: the role is optional.
RegisterEmails == {"admin@abhaya.com", "ADMIN@ABHAYA.COM", "alice@example.com", "not-an-email"}
RegisterPasswords == {"secret1", "short"}
RegisterRoles == {"", "user", "super_admin"}

\* validateRegister (the name is given): isEmail, isLength({ min: 6 }),
\* optional isIn(['user', 'admin']).
validateRegister(email, password, role) ==
  /\ isEmail(email)
  /\ Len(password) >= 6
  /\ role \in {"", "user", "admin"}

\* POST /register up to `await User.findOne(...)`: 400, 409, or on to the save.
registerFind(email, password, role) ==
  IF ~validateRegister(email, password, role)
  THEN Done([IdleTask EXCEPT !.op = "register"], 400)
  ELSE IF findByEmail(toLowerCase(email)) # {}
  THEN Done([IdleTask EXCEPT !.op = "register", !.email = toLowerCase(email)], 409)
  ELSE [IdleTask EXCEPT !.pc = "save", !.op = "register",
                        !.email = toLowerCase(email), !.password = password,
                        !.role = IF role = "" THEN "admin" ELSE role]

RegisterFind(t, email, password, role) ==
  /\ tasks[t].pc = "idle"
  /\ tasks' = [tasks EXCEPT ![t] = registerFind(email, password, role)]
  /\ UNCHANGED <<authVars, listVars, items>>

\* `await user.save()` and what follows.  The unique index on email refuses a
\* second document with the email (error code 11000, which the global error
\* handler answers with 409); after the save, generateToken throws or the
\* answer is 201 with the token.
RegisterSave(t) ==
  LET task == tasks[t]
      free == UserIds \ DOMAIN users
      id == CHOOSE i \in free : \A j \in free : i <= j
      user == NewUser(task.email, task.password, task.role, "active")
      token == generateToken(id, user)
  IN
  /\ task.pc = "save"
  /\ IF findByEmail(task.email) # {}
     THEN /\ tasks' = [tasks EXCEPT ![t] = Done(task, 409)]
          /\ UNCHANGED users
     ELSE /\ free # {}
          /\ users' = (id :> user) @@ users
          /\ tasks' = [tasks EXCEPT ![t] =
               [Done(task, IF token = {} THEN 500 ELSE 201) EXCEPT
                  !.id = id, !.token = token, !.created = TRUE]]
  /\ UNCHANGED <<now, secretSet, resp, hist, listVars, items>>

\* POST /login up to `await user.comparePassword(password)`: the checks are made
\* on the document as findOne returned it, which the task keeps.
LoginFind(t, email, password) ==
  LET found == findByEmail(toLowerCase(email))
      id == CHOOSE i \in found : TRUE
      b == loginBranch(users[id], password)
      begun == [IdleTask EXCEPT !.op = "login", !.id = id, !.snap = {users[id]}]
  IN
  /\ tasks[t].pc = "idle"
  /\ tasks' = [tasks EXCEPT ![t] =
       IF ~validateLogin(email, password) THEN Done([IdleTask EXCEPT !.op = "login"], 400)
       ELSE IF found = {} THEN Done([IdleTask EXCEPT !.op = "login"], 401)
       ELSE CASE b = "not-admin" -> Done(begun, 403)
              [] b = "locked" -> Done(begun, 423)
              [] b = "inactive" -> Done(begun, 403)
              [] b = "bad-password" -> [begun EXCEPT !.pc = "inc"]
              [] b = "ok" -> [begun EXCEPT !.pc = "reset"]]
  /\ UNCHANGED <<authVars, listVars, items>>

\* Variant of LoginIncrement that increments the stored counter in one atomic
\* store operation, and locks when the stored counter reaches the threshold.
LoginIncrement_atomic(t) ==
  LET task == tasks[t]
      after == incLoginAttempts(users[task.id])
  IN
  /\ task.pc = "inc"
  /\ users' = [users EXCEPT ![task.id] = after]
  /\ hist' = [hist EXCEPT ![task.id] = Streak(@, "bad-password")]
  /\ tasks' = [tasks EXCEPT ![t] = Done(task, 401)]
  /\ UNCHANGED <<now, secretSet, resp, listVars, items>>

\* `await user.incLoginAttempts()`: the counter (and the lock, when this failure
\* reaches the threshold) are computed from the document the task read and
\* written over whatever the store holds now.
LoginIncrement(t) ==
  LET task == tasks[t]
      doc == CHOOSE u \in task.snap : TRUE
      after == incLoginAttempts(doc)
  IN
  /\ task.pc = "inc"
  /\ users' = [users EXCEPT ![task.id].loginAttempts = after.loginAttempts,
                            ![task.id].lockUntil =
                               IF after.lockUntil # doc.lockUntil THEN after.lockUntil ELSE @]
  /\ hist' = [hist EXCEPT ![task.id] = Streak(@, "bad-password")]
  /\ tasks' = [tasks EXCEPT ![t] = Done(task, 401)]
  /\ UNCHANGED <<now, secretSet, resp, listVars, items>>

\* `await user.resetLoginAttempts()`, then generateToken and the answer.
LoginReset(t) ==
  LET task == tasks[t]
      doc == CHOOSE u \in task.snap : TRUE
      token == generateToken(task.id, doc)
  IN
  /\ task.pc = "reset"
  /\ users' = [users EXCEPT ![task.id].loginAttempts = 0, ![task.id].lockUntil = 0]
  /\ hist' = [hist EXCEPT ![task.id] = Streak(@, "ok")]
  /\ tasks' = [tasks EXCEPT ![t] =
       [Done(task, IF token = {} THEN 500 ELSE 200) EXCEPT !.token = token]]
  /\ UNCHANGED <<now, secretSet, resp, listVars, items>>

\* The response has left; the task can take the next request.
TaskEnd(t) ==
  /\ tasks[t].pc = "done"
  /\ tasks' = [tasks EXCEPT ![t] = IdleTask]
  /\ UNCHANGED <<authVars, listVars, items>>

-----------------------------------------------------------------------------
(* routes/news and routes/videos: create, update, status, featured, delete. *)
(* The two routers have the same routes; a video also has a YouTube id.     *)

\* How many documents the two collections are given ids for.
MaxItems == 2

ItemIds == 1..MaxItems

Collections == {"news", "videos"}

\* A string that is not an ObjectId, as the :id of a request.
InvalidId == 0

\* The :id values of requests: the malformed one, the ids given out or still to
\* be given out, and a well-formed id no document will have.
RequestIds == 0..(MaxItems + 1)

\* mongoose.Types.ObjectId.isValid(id)
isValidObjectId(id) == id # InvalidId

\* What remains of a deleted document: its id is not given out again.
Deleted ==
  [coll |-> "", status |-> "", featured |-> FALSE, youtubeId |-> "", alive |-> FALSE]

\* new News(...) / new Video(...): a document starts unfeatured; its status is
\* the body's or 'draft'.
NewItem(coll, status, youtubeId) ==
  [coll |-> coll, status |-> IF status = "" THEN "draft" ELSE status,
   featured |-> FALSE, youtubeId |-> youtubeId, alive |-> TRUE]

\* The ids of the documents of a collection.
Stored(coll) == {id \in DOMAIN items : items[id].alive /\ items[id].coll = coll}

\* Model.findById(id)
findItem(coll, id) == {i \in Stored(coll) : i = id}

\* The ids not given out yet, and the one a new document gets.
FreeIds == ItemIds \ DOMAIN items
NewId == CHOOSE i \in FreeIds : \A j \in FreeIds : i <= j

\* String.prototype.trim
trim(s) == IF s = "   Abcd   " THEN "Abcd" ELSE s

\* isURL
isURL(s) == s # "not a url"

\* extractYouTubeId: the 11-character id in a youtube.com or youtu.be URL, or
\* the empty string (null) when the pattern does not match.
extractYouTubeId(url) ==
  CASE url = "https://youtu.be/aaaaaaaaaaa" -> "aaaaaaaaaaa"
    [] url = "https://www.youtube.com/watch?v=aaaaaaaaaaa" -> "aaaaaaaaaaa"
    [] url = "https://youtu.be/bbbbbbbbbbb" -> "bbbbbbbbbbb"
    [] OTHER -> ""

\* Field values of request bodies; "" is a field the body does not have.
Titles == {"   Abcd   ", "Abcde"}
Summaries == {"Too short", "A summary."}
Contents == {"Too short", "A text of fifty characters or more, for an article."}
NewsCategories == {"Politics", "Gossip"}
VideoCategories == {"News", "Gossip"}
ItemStatuses == {"", "published", "archived"}
YoutubeUrls ==
  {"https://youtu.be/aaaaaaaaaaa", "https://www.youtube.com/watch?v=aaaaaaaaaaa",
   "https://youtu.be/bbbbbbbbbbb", "https://example.com/video", "not a url"}

NewsBodies ==
  [title : Titles, summary : Summaries, content : Contents,
   category : NewsCategories, status : ItemStatuses, youtubeUrl : {""}]

VideoBodies ==
  [title : Titles, summary : {""}, content : {""},
   category : VideoCategories, status : ItemStatuses, youtubeUrl : YoutubeUrls]

Bodies(coll) == IF coll = "news" THEN NewsBodies ELSE VideoBodies

\* validateNews
validateNews(body) ==
  /\ Len(trim(body.title)) >= 5 /\ Len(trim(body.title)) <= 200
  /\ Len(trim(body.summary)) >= 10 /\ Len(trim(body.summary)) <= 500
  /\ Len(trim(body.content)) >= 50
  /\ body.category \in {"Politics", "Technology", "Sports", "Entertainment", "Business", "Health"}
  /\ body.status \in {"", "published", "draft"}

\* validateVideo
validateVideo(body) ==
  /\ Len(trim(body.title)) >= 5 /\ Len(trim(body.title)) <= 200
  /\ isURL(body.youtubeUrl)
  /\ body.category \in {"News", "Analysis", "Interview", "Documentary", "Live", "Entertainment"}
  /\ body.status \in {"", "published", "draft"}

validateBody(coll, body) == IF coll = "news" THEN validateNews(body) ELSE validateVideo(body)

\* The outcome of a content request: the response, the collections as the
\* handler leaves them, and data.deletedCount where the body has one.
ContentOutcome(r, store) == [resp |-> r, items |-> store, deletedCount |-> 0]

\* The response of a gate, or what the handler makes of the request.
Behind(op, header, handled) ==
  LET gate == routerGates(header) IN
  IF gate.next THEN handled ELSE ContentOutcome(GateResponse(op, gate), items)

\* A response of a handler (the gates passed).
Sent(op, code, error) == [Response(op, code, error) EXCEPT !.ran = TRUE]

\* POST / : validation, for a video the YouTube id and the check that no video
\* has it, then the save.
postItem(coll, header, body) ==
  LET youtubeId == extractYouTubeId(body.youtubeUrl) IN
  Behind("create", header,
    IF ~validateBody(coll, body)
    THEN ContentOutcome(Sent("create", 400, "ValidationFailed"), items)
    ELSE IF coll = "videos" /\ youtubeId = ""
    THEN ContentOutcome(Sent("create", 400, "InvalidYoutubeUrl"), items)
    ELSE IF coll = "videos" /\ \E id \in Stored(coll) : items[id].youtubeId = youtubeId
    THEN ContentOutcome(Sent("create", 409, "Conflict"), items)
    ELSE ContentOutcome(Sent("create", 201, ""),
                        (NewId :> NewItem(coll, body.status, youtubeId)) @@ items))

\* PUT /:id : validation, the id, for a video the YouTube id, then
\* findByIdAndUpdate with the body.
putItem(coll, header, id, body) ==
  LET youtubeId == extractYouTubeId(body.youtubeUrl) IN
  Behind("update", header,
    IF ~validateBody(coll, body)
    THEN ContentOutcome(Sent("update", 400, "ValidationFailed"), items)
    ELSE IF ~isValidObjectId(id)
    THEN ContentOutcome(Sent("update", 400, "InvalidId"), items)
    ELSE IF coll = "videos" /\ youtubeId = ""
    THEN ContentOutcome(Sent("update", 400, "InvalidYoutubeUrl"), items)
    ELSE IF findItem(coll, id) = {}
    THEN ContentOutcome(Sent("update", 404, "NotFound"), items)
    ELSE ContentOutcome(Sent("update", 200, ""),
           [items EXCEPT ![id].status = IF body.status = "" THEN @ ELSE body.status,
                         ![id].youtubeId = youtubeId]))

\* Variant of patchStatus without the validation of the body.
patchStatus_noValidation(coll, header, id, status) ==
  Behind("status", header,
    IF ~isValidObjectId(id)
    THEN ContentOutcome(Sent("status", 400, "InvalidId"), items)
    ELSE IF findItem(coll, id) = {}
    THEN ContentOutcome(Sent("status", 404, "NotFound"), items)
    ELSE ContentOutcome(Sent("status", 200, ""), [items EXCEPT ![id].status = status]))

\* PATCH /:id/status
patchStatus(coll, header, id, status) ==
  Behind("status", header,
    IF status \notin {"published", "draft"}
    THEN ContentOutcome(Sent("status", 400, "ValidationFailed"), items)
    ELSE IF ~isValidObjectId(id)
    THEN ContentOutcome(Sent("status", 400, "InvalidId"), items)
    ELSE IF findItem(coll, id) = {}
    THEN ContentOutcome(Sent("status", 404, "NotFound"), items)
    ELSE ContentOutcome(Sent("status", 200, ""), [items EXCEPT ![id].status = status]))

\* PATCH /:id/featured, when no other request runs between its findById and its save.
patchFeatured(coll, header, id) ==
  Behind("featured", header,
    IF ~isValidObjectId(id)
    THEN ContentOutcome(Sent("featured", 400, "InvalidId"), items)
    ELSE IF findItem(coll, id) = {}
    THEN ContentOutcome(Sent("featured", 404, "NotFound"), items)
    ELSE ContentOutcome(Sent("featured", 200, ""),
                        [items EXCEPT ![id].featured = ~items[id].featured]))

\* Variant of deleteItem that answers 200 whether or not the document exists.
deleteItem_always200(coll, header, id) ==
  Behind("delete", header,
    IF ~isValidObjectId(id)
    THEN ContentOutcome(Sent("delete", 400, "InvalidId"), items)
    ELSE ContentOutcome(Sent("delete", 200, ""),
                        [i \in DOMAIN items |->
                           IF i \in findItem(coll, id) THEN Deleted ELSE items[i]]))

\* DELETE /:id : findByIdAndDelete
deleteItem(coll, header, id) ==
  Behind("delete", header,
    IF ~isValidObjectId(id)
    THEN ContentOutcome(Sent("delete", 400, "InvalidId"), items)
    ELSE IF findItem(coll, id) = {}
    THEN ContentOutcome(Sent("delete", 404, "NotFound"), items)
    ELSE ContentOutcome(Sent("delete", 200, ""), [items EXCEPT ![id] = Deleted]))

\* Bodies of POST /bulk-delete: ids is an array of :id values, or not an array.
BulkBodies ==
  {[isArray |-> TRUE, ids |-> S] : S \in SUBSET RequestIds}
    \cup {[isArray |-> FALSE, ids |-> {}]}

\* body('ids').isArray(), body('ids.*').isMongoId()
validateBulk(body) == body.isArray /\ \A id \in body.ids : isValidObjectId(id)

\* POST /bulk-delete : deleteMany({ _id: { $in: ids } })
postBulkDelete(coll, header, body) ==
  Behind("bulk-delete", header,
    IF ~validateBulk(body)
    THEN ContentOutcome(Sent("bulk-delete", 400, "ValidationFailed"), items)
    ELSE LET hit == Stored(coll) \cap body.ids IN
         [ContentOutcome(Sent("bulk-delete", 200, ""),
                         [i \in DOMAIN items |-> IF i \in hit THEN Deleted ELSE items[i]])
            EXCEPT !.deletedCount = Cardinality(hit)])

\* The outcome of a content handler becomes the state.
HandleContent(o) ==
  /\ resp = Idle
  /\ resp' = o.resp
  /\ items' = o.items
  /\ UNCHANGED <<users, now, secretSet, hist, listVars, tasks>>

CreateItem(coll, header, body) ==
  /\ FreeIds # {}
  /\ HandleContent(postItem(coll, header, body))

UpdateItem(coll, header, id, body) ==
  /\ id \in RequestIds
  /\ HandleContent(putItem(coll, header, id, body))

SetItemStatus(coll, header, id, status) ==
  /\ id \in RequestIds
  /\ HandleContent(patchStatus(coll, header, id, status))

ToggleFeatured(coll, header, id) ==
  /\ id \in RequestIds
  /\ HandleContent(patchFeatured(coll, header, id))

DeleteItem(coll, header, id) ==
  /\ id \in RequestIds
  /\ HandleContent(deleteItem(coll, header, id))

BulkDelete(coll, header, body) ==
  /\ body \in BulkBodies
  /\ HandleContent(postBulkDelete(coll, header, body))

-----------------------------------------------------------------------------

\* The database as the process finds it.  Account 1, if there, is the account of
\* the default admin email, in any role and status; account 2, if there, is an
\* active admin.  No failed attempt is on record.
InitialStores ==
  { s \in UNION { [D -> [email : {AdminEmail, OtherEmail}, password : Passwords,
                         role : Roles, status : Statuses,
                         loginAttempts : {0}, lockUntil : {0}]] : D \in SUBSET UserIds } :
      /\ 1 \in DOMAIN s => s[1].email = AdminEmail
      /\ 2 \in DOMAIN s => /\ s[2].email = OtherEmail
                            /\ s[2].role = "admin"
                            /\ s[2].status = "active"
                            /\ s[2].password = DefaultPassword }

Init ==
  /\ users \in InitialStores
  /\ now = 0
  /\ secretSet \in BOOLEAN
  /\ resp = Idle
  /\ hist = [id \in UserIds |-> NoStreak]
  /\ docs = <<>>
  /\ listResp = NoList
  /\ tasks = <<>>
  /\ items = <<>>

Next ==
  \/ Tick
  \/ Deliver
  \/ seedAdminUser
  \/ \E email \in LoginEmails, password \in LoginPasswords : Login(email, password)
  \/ \E router \in ContentRouters, header \in Headers : ContentRequest(router, header)
  \/ \E header \in Headers, id \in UserIds, status \in BodyStatuses :
        UpdateUserStatus(header, id, status)
  \/ \E header \in Headers : Logout(header)
  \/ \E header \in Headers, old \in OldPasswords, new \in NewPasswords :
        ChangePassword(header, old, new)
  \/ \E header \in Headers : Profile(header)
  \/ Health
  \/ Root
  \/ NotFound

Spec == Init /\ [][Next]_vars

\* The list endpoints, over a collection that starts empty and grows.
InitList ==
  /\ users = <<>>
  /\ now = 0
  /\ secretSet = TRUE
  /\ resp = Idle
  /\ hist = [id \in UserIds |-> NoStreak]
  /\ docs = <<>>
  /\ listResp = NoList
  /\ tasks = <<>>
  /\ items = <<>>

NextList ==
  \/ DeliverList
  \/ \E rating \in Ratings : InsertDoc(rating)
  \/ \E op \in ListRouters, q \in ListQueries : ListRequest(op, q)
  \/ \E start \in 1..(MaxDocs + 1) : StatsRequest(start)

SpecList == InitList /\ [][NextList]_vars

\* The content routes, one request at a time, over collections that start
\* empty.  The accounts are the default admin and a member of role 'user';
\* requests come with the token of the one or of the other.
ContentHeaders ==
  {[scheme |-> "Bearer",
    token |-> jwt_sign([userId |-> id, role |-> "admin", isGuest |-> FALSE,
                        exp |-> JWT_EXPIRE], EnvSecret)] : id \in UserIds}

InitContent ==
  /\ users = (1 :> NewUser(AdminEmail, DefaultPassword, "admin", "active"))
               @@ (2 :> NewUser(OtherEmail, DefaultPassword, "user", "active"))
  /\ now = 0
  /\ secretSet = TRUE
  /\ resp = Idle
  /\ hist = [id \in UserIds |-> NoStreak]
  /\ docs = <<>>
  /\ listResp = NoList
  /\ tasks = <<>>
  /\ items = <<>>

NextContent ==
  \/ Deliver
  \/ \E coll \in Collections, header \in ContentHeaders :
        \/ \E body \in Bodies(coll) : CreateItem(coll, header, body)
        \/ \E id \in RequestIds, body \in Bodies(coll) : UpdateItem(coll, header, id, body)
        \/ \E id \in RequestIds, status \in ItemStatuses : SetItemStatus(coll, header, id, status)
        \/ \E id \in RequestIds : ToggleFeatured(coll, header, id)
        \/ \E id \in RequestIds : DeleteItem(coll, header, id)
        \/ \E body \in BulkBodies : BulkDelete(coll, header, body)

SpecContent == InitContent /\ [][NextContent]_vars

-----------------------------------------------------------------------------
(* Interleaved content requests: the handlers of POST / (videos) and of      *)
(* PATCH /:id/featured read the store, then write it in a later step.        *)

\* A task that handles no content request.
IdleItemTask ==
  [pc |-> "idle", op |-> "none", coll |-> "", id |-> 0, snap |-> {},
   youtubeId |-> "", status |-> "", code |-> 0]

\* The task has sent its response; what it read is no longer held.
Answer(task, code) ==
  [IdleItemTask EXCEPT !.pc = "done", !.op = task.op, !.coll = task.coll,
                       !.id = task.id, !.code = code]

\* The token of the default admin: the header of the requests.
AdminHeader == CHOOSE header \in ContentHeaders : header.token.payload.userId = 1

\* The bodies of the interleaved video requests: every status and every URL.
TaskBodies == {body \in VideoBodies : body.title = "Abcde" /\ body.category = "News"}

\* The bodies of the interleaved article requests: every content and status.
TaskNewsBodies ==
  {body \in NewsBodies :
     body.title = "Abcde" /\ body.summary = "A summary." /\ body.category = "Politics"}

\* POST / (news): validation, then `await article.save()`, the one store
\* operation of the handler.
NewsCreate(t, body) ==
  LET o == postItem("news", AdminHeader, body) IN
  /\ tasks[t].pc = "idle"
  /\ FreeIds # {}
  /\ items' = o.items
  /\ tasks' = [tasks EXCEPT ![t] =
       Answer([IdleItemTask EXCEPT !.op = "create", !.coll = "news"], o.resp.code)]
  /\ UNCHANGED <<authVars, listVars>>

\* POST / (videos) up to `await Video.findOne({ youtubeId })`: 400, 409, or on
\* to the save.
videoFind(body) ==
  LET youtubeId == extractYouTubeId(body.youtubeUrl)
      begun == [IdleItemTask EXCEPT !.op = "create", !.coll = "videos"]
  IN
  IF ~validateVideo(body) THEN Answer(begun, 400)
  ELSE IF youtubeId = "" THEN Answer(begun, 400)
  ELSE IF \E id \in Stored("videos") : items[id].youtubeId = youtubeId
  THEN Answer(begun, 409)
  ELSE [begun EXCEPT !.pc = "save", !.youtubeId = youtubeId, !.status = body.status]

VideoFind(t, body) ==
  /\ tasks[t].pc = "idle"
  /\ routerGates(AdminHeader).next
  /\ tasks' = [tasks EXCEPT ![t] = videoFind(body)]
  /\ UNCHANGED <<authVars, listVars, items>>

\* `await video.save()`: the document is inserted, and the answer is 201.
VideoSave(t) ==
  LET task == tasks[t] IN
  /\ task.pc = "save"
  /\ FreeIds # {}
  /\ items' = (NewId :> NewItem("videos", task.status, task.youtubeId)) @@ items
  /\ tasks' = [tasks EXCEPT ![t] = Answer([task EXCEPT !.id = NewId], 201)]
  /\ UNCHANGED <<authVars, listVars>>

\* PUT /:id (videos): findByIdAndUpdate is one store operation.
VideoUpdate(t, id, body) ==
  LET o == putItem("videos", AdminHeader, id, body) IN
  /\ tasks[t].pc = "idle"
  /\ items' = o.items
  /\ tasks' = [tasks EXCEPT ![t] =
       Answer([IdleItemTask EXCEPT !.op = "update", !.coll = "videos", !.id = id],
              o.resp.code)]
  /\ UNCHANGED <<authVars, listVars>>

\* DELETE /:id : findByIdAndDelete is one store operation.
ItemDelete(t, coll, id) ==
  LET o == deleteItem(coll, AdminHeader, id) IN
  /\ tasks[t].pc = "idle"
  /\ items' = o.items
  /\ tasks' = [tasks EXCEPT ![t] =
       Answer([IdleItemTask EXCEPT !.op = "delete", !.coll = coll, !.id = id], o.resp.code)]
  /\ UNCHANGED <<authVars, listVars>>

\* PATCH /:id/featured up to `await News.findById(id)`: 400, 404, or on to the
\* save with the document as it was read.
featuredFind(coll, id) ==
  LET begun == [IdleItemTask EXCEPT !.op = "featured", !.coll = coll, !.id = id] IN
  IF ~isValidObjectId(id) THEN Answer(begun, 400)
  ELSE IF findItem(coll, id) = {} THEN Answer(begun, 404)
  ELSE [begun EXCEPT !.pc = "toggle", !.snap = {items[id]}]

FeaturedFind(t, coll, id) ==
  /\ tasks[t].pc = "idle"
  /\ routerGates(AdminHeader).next
  /\ tasks' = [tasks EXCEPT ![t] = featuredFind(coll, id)]
  /\ UNCHANGED <<authVars, listVars, items>>

\* `article.featured = !article.featured; await article.save()`: the flag of the
\* document as it was read is negated and written to the stored document.  When
\* the document was deleted in between, save() throws and the answer is 500.
FeaturedSave(t) ==
  LET task == tasks[t]
      doc == CHOOSE d \in task.snap : TRUE
  IN
  /\ task.pc = "toggle"
  /\ IF findItem(task.coll, task.id) = {}
     THEN /\ tasks' = [tasks EXCEPT ![t] = Answer(task, 500)]
          /\ UNCHANGED items
     ELSE /\ items' = [items EXCEPT ![task.id].featured = ~doc.featured]
          /\ tasks' = [tasks EXCEPT ![t] = Answer(task, 200)]
  /\ UNCHANGED <<authVars, listVars>>

\* The response has left; the task can take the next request.
ItemTaskEnd(t) ==
  /\ tasks[t].pc = "done"
  /\ tasks' = [tasks EXCEPT ![t] = IdleItemTask]
  /\ UNCHANGED <<authVars, listVars, items>>

\* Interleaved content requests of the default admin, over collections that
\* start empty.
InitItemTasks ==
  /\ users = (1 :> NewUser(AdminEmail, DefaultPassword, "admin", "active"))
               @@ (2 :> NewUser(OtherEmail, DefaultPassword, "user", "active"))
  /\ now = 0
  /\ secretSet = TRUE
  /\ resp = Idle
  /\ hist = [id \in UserIds |-> NoStreak]
  /\ docs = <<>>
  /\ listResp = NoList
  /\ tasks = [t \in TaskIds |-> IdleItemTask]
  /\ items = <<>>

NextItemTasks ==
  \E t \in TaskIds :
    \/ \E body \in TaskNewsBodies : NewsCreate(t, body)
    \/ \E body \in TaskBodies : VideoFind(t, body)
    \/ VideoSave(t)
    \/ \E id \in RequestIds, body \in TaskBodies : VideoUpdate(t, id, body)
    \/ \E coll \in Collections, id \in RequestIds : ItemDelete(t, coll, id)
    \/ \E coll \in Collections, id \in RequestIds : FeaturedFind(t, coll, id)
    \/ FeaturedSave(t)
    \/ ItemTaskEnd(t)

SpecItemTasks == InitItemTasks /\ [][NextItemTasks]_vars

\* Interleaved register and login requests, over a store that is empty or
\* holds the default admin.
InitTasks ==
  /\ users \in {s \in InitialStores :
                  /\ DOMAIN s \subseteq {1}
                  /\ \A id \in DOMAIN s : s[id] = NewUser(AdminEmail, DefaultPassword, "admin", "active")}
  /\ now = 0
  /\ secretSet \in BOOLEAN
  /\ resp = Idle
  /\ hist = [id \in UserIds |-> NoStreak]
  /\ docs = <<>>
  /\ listResp = NoList
  /\ tasks = [t \in TaskIds |-> IdleTask]
  /\ items = <<>>

NextTasks ==
  \E t \in TaskIds :
    \/ \E email \in RegisterEmails, password \in RegisterPasswords, role \in RegisterRoles :
         RegisterFind(t, email, password, role)
    \/ RegisterSave(t)
    \/ \E email \in LoginEmails, password \in LoginPasswords : LoginFind(t, email, password)
    \/ LoginIncrement(t)
    \/ LoginReset(t)
    \/ TaskEnd(t)

SpecTasks == InitTasks /\ [][NextTasks]_vars

-----------------------------------------------------------------------------
(* Properties.  A request is handled from a state with resp = Idle; a      *)
(* property of a handler states, for every such state and every request,   *)
(* what the handler answers and what it leaves in the store.               *)

AdminRoles == {"admin", "super_admin"}

\* The account is locked: lockUntil is set and in the future.
Locked(u) == u.lockUntil # 0 /\ u.lockUntil > now

\* The header carries a bearer token that verifies now.
Verifies(header) ==
  /\ header.scheme = "Bearer"
  /\ header.token.sig = Signature(header.token.payload, MiddlewareSecret)
  /\ now < header.token.payload.exp

\* The token's subject is a stored, active, unlocked account.
SubjectInGoodStanding(header) ==
  LET id == header.token.payload.userId IN
  /\ id \in DOMAIN users
  /\ users[id].status = "active"
  /\ ~Locked(users[id])

\* The conditions under which a handler behind the two gates may run.
Authorized(header) ==
  /\ Verifies(header)
  /\ ~header.token.payload.isGuest
  /\ SubjectInGoodStanding(header)
  /\ users[header.token.payload.userId].role \in AdminRoles

\* What C1 asks of the outcome o of a request with this header.
GatedOutcome(header, o) ==
  /\ o.resp.ran <=> Authorized(header)
  /\ ~Authorized(header) => /\ o.users = users
                            /\ o.resp.code \in {401, 403, 423}

\* C1: on every route of the news, videos, feedback and admin routers the
\* handler runs only for a request whose bearer token verifies and whose subject
\* is a stored, active, unlocked account with role admin or super_admin; every
\* other request (a guest token and a role 'user' account included) is refused
\* by a gate, its handler does not run and the store stays as it was.
C1_HandlerOnlyForAdmins ==
  resp = Idle =>
    \A header \in Headers :
      /\ \A router \in ContentRouters : GatedOutcome(header, contentRoute(router, header))
      /\ \A id \in UserIds, status \in BodyStatuses :
           GatedOutcome(header, putUserStatus(header, id, status))

\* A request of a role 'user' account in good standing was refused by the role gate.
C1_Witness ==
  /\ resp.op \in ContentRouters \cup {"admin"}
  /\ resp.error = "Forbidden"
  /\ ~resp.ran
  /\ \E c \in resp.user : c.role = "user" /\ c.status = "active"

\* The accounts a login request with this email is about.
Named(email) == findByEmail(toLowerCase(email))

\* A login request with valid input that names stored account id.
LoginRequests ==
  {r \in [email : LoginEmails, password : LoginPasswords, id : UserIds] :
     validateLogin(r.email, r.password) /\ r.id \in Named(r.email)}

\* Account u is one the login route verifies the password of.
ActiveAdmin(u) == u.role \in AdminRoles /\ u.status = "active"

C3_LockedLoginRefused ==
  resp = Idle =>
    \A email \in LoginEmails, password \in LoginPasswords :
      validateLogin(email, password) =>
        \A id \in Named(email) :
          Locked(users[id]) =>
            LET o == postLogin(email, password) IN
            /\ o.resp.code = 423
            /\ o.resp.error = "AccountLocked"
            /\ o.resp.token = {}
            /\ o.users[id].loginAttempts = users[id].loginAttempts
            /\ o.users[id].lockUntil = users[id].lockUntil

\* A login was refused with 423 on an account locked by five failures in a row.
C3_Witness ==
  /\ resp.op = "login" /\ resp.code = 423
  /\ \E id \in DOMAIN users : Locked(users[id]) /\ hist[id].pwFails = MaxLoginAttempts

\* The account of a login request is active, unlocked, has an admin role, and
\* the password is right.
ValidCredentials(r) ==
  /\ ActiveAdmin(users[r.id])
  /\ ~Locked(users[r.id])
  /\ users[r.id].password = r.password

\* C4: a correct-password login on an active admin account that is not locked
\* (never locked, or its lockUntil has elapsed) is answered 200 and leaves the
\* account with failed-attempt counter 0 and no lockUntil.
C4_Original ==
  resp = Idle =>
    \A r \in LoginRequests :
      ValidCredentials(r) =>
        LET o == postLogin(r.email, r.password) IN
        /\ o.resp.code = 200
        /\ o.users[r.id].loginAttempts = 0
        /\ o.users[r.id].lockUntil = 0

\* C5: a login with valid credentials of an active, unlocked admin account
\* succeeds and returns a token whose subject is the account's id and whose role
\* is the account's stored role.
C5_Original ==
  resp = Idle =>
    \A r \in LoginRequests :
      ValidCredentials(r) =>
        LET o == postLogin(r.email, r.password) IN
        /\ o.resp.code = 200
        /\ o.resp.token # {}
        /\ \A t \in o.resp.token :
             /\ t.payload.userId = r.id
             /\ t.payload.role = users[r.id].role

\* C6: the status table of POST /auth/login: 401 for an unknown email or a wrong
\* password, 403 for a role that is not admin/super_admin or a status that is
\* not active, 423 for a locked account, 200 with a token otherwise.
C6_Original ==
  resp = Idle =>
    \A email \in LoginEmails, password \in LoginPasswords :
      validateLogin(email, password) =>
        LET o == postLogin(email, password) IN
        IF Named(email) = {} THEN o.resp.code = 401
        ELSE \A id \in Named(email) :
               LET u == users[id] IN
               IF u.role \notin AdminRoles THEN o.resp.code = 403
               ELSE IF Locked(u) THEN o.resp.code = 423
               ELSE IF u.status # "active" THEN o.resp.code = 403
               ELSE IF u.password # password THEN o.resp.code = 401
               ELSE o.resp.code = 200 /\ o.resp.token # {}

\* The outcomes of the requests that can carry this header to a route behind the
\* Auth Gate.
GuardedOutcomes(header) ==
  {postLogout(header)}
    \cup {postChangePassword(header, old, new) : old \in OldPasswords, new \in NewPasswords}
    \cup {contentRoute(router, header) : router \in ContentRouters}
    \cup {putUserStatus(header, id, status) : id \in UserIds, status \in BodyStatuses}

\* The Auth Gate refused the request of outcome o with this status and error.
RefusedWith(o, code, error) ==
  /\ o.resp.code = code
  /\ o.resp.error = error
  /\ ~o.resp.ran
  /\ o.resp.user = {}
  /\ o.users = users

\* C7: for a request whose non-guest token verifies, the Auth Gate loads the
\* identity, then checks the status, then the lock: 401 if the subject is
\* missing, else 403 if the status is not active (also when the account is
\* locked), else 423 if the account is locked, else it attaches the identity
\* context of the stored account and passes the request on.
C7_AuthGateOrder ==
  resp = Idle =>
    \A header \in Headers :
      (Verifies(header) /\ ~header.token.payload.isGuest) =>
        LET id == header.token.payload.userId
            gate == authMiddleware(header)
        IN
        /\ IF id \notin DOMAIN users
             THEN \A o \in GuardedOutcomes(header) : RefusedWith(o, 401, "UserNotFound")
           ELSE IF users[id].status # "active"
             THEN \A o \in GuardedOutcomes(header) : RefusedWith(o, 403, "AccountInactive")
           ELSE IF Locked(users[id])
             THEN \A o \in GuardedOutcomes(header) : RefusedWith(o, 423, "AccountLocked")
           ELSE /\ gate.next
                /\ gate.user = {[userId |-> id, email |-> users[id].email,
                                 role |-> users[id].role, status |-> "active",
                                 isGuest |-> FALSE]}
                /\ postLogout(header).resp.ran
                /\ postLogout(header).resp.user = gate.user

\* A request was refused with 403 while every account that is not active is locked.
C7_Witness ==
  /\ resp.op = "logout"
  /\ resp.code = 403
  /\ resp.error = "AccountInactive"
  /\ \E id \in DOMAIN users : users[id].status # "active"
  /\ \A id \in DOMAIN users : users[id].status # "active" => Locked(users[id])

\* C8: a bearer token whose signature does not match its payload under the
\* verification key (signed with another key, or altered after signing) is
\* answered 401 InvalidToken; a token with a good signature whose expiry has
\* passed is answered 401 ExpiredToken; in both cases no handler runs.
C8_InvalidAndExpiredTokens ==
  resp = Idle =>
    \A header \in Headers :
      header.scheme = "Bearer" =>
        LET token == header.token
            goodSignature == token.sig = Signature(token.payload, MiddlewareSecret)
        IN
        /\ ~goodSignature =>
             \A o \in GuardedOutcomes(header) : RefusedWith(o, 401, "InvalidToken")
        /\ (goodSignature /\ now >= token.payload.exp) =>
             \A o \in GuardedOutcomes(header) : RefusedWith(o, 401, "ExpiredToken")

\* A request with an expired token was refused.
C8_Witness ==
  /\ resp.op \in ContentRouters \cup {"admin", "logout", "change-password"}
  /\ resp.code = 401
  /\ resp.error = "ExpiredToken"
  /\ ~resp.ran
  /\ now >= JWT_EXPIRE

\* C9: when the verified token is a guest token, the Auth Gate attaches a guest
\* context made from the token alone (role 'guest') and passes the request on,
\* whatever the store holds for the subject id; a route behind the Auth Gate
\* only then runs its handler.
C9_GuestPassesAuthGate ==
  resp = Idle =>
    \A header \in Headers :
      (Verifies(header) /\ header.token.payload.isGuest) =>
        LET gate == authMiddleware(header)
            o == postLogout(header)
        IN
        /\ gate.next
        /\ \A c \in gate.user : c.role = "guest" /\ c.isGuest
                                 /\ c.userId = header.token.payload.userId
        /\ Cardinality(gate.user) = 1
        /\ o.resp.ran
        /\ o.resp.code = 200
        /\ o.resp.user = gate.user

\* A guest token passed the Auth Gate while its subject id is that of a stored
\* account that is inactive and locked.
C9_Witness ==
  /\ resp.op = "logout"
  /\ resp.ran
  /\ \E c \in resp.user :
       /\ c.role = "guest"
       /\ c.userId \in DOMAIN users
       /\ users[c.userId].status # "active"
       /\ Locked(users[c.userId])

\* The Auth Gate has no reason to refuse this header with this store at this time.
Acceptable(header, store) ==
  /\ Verifies(header)
  /\ \/ header.token.payload.isGuest
     \/ LET id == header.token.payload.userId IN
        /\ id \in DOMAIN store
        /\ store[id].status = "active"
        /\ ~Locked(store[id])

\* C10: no revocation.  At every time the Auth Gate accepts exactly the tokens
\* that verify and whose account (for a member's token) exists, is active and is
\* not locked; and no logout and no change of password, by the token's holder or
\* by anyone else, takes a token out of that set.
C10_NoRevocation ==
  resp = Idle =>
    \A header \in Headers :
      /\ authMiddleware(header).next <=> Acceptable(header, users)
      /\ Acceptable(header, users) =>
           \A by \in Headers :
             /\ Acceptable(header, postLogout(by).users)
             /\ \A old \in OldPasswords, new \in NewPasswords :
                  Acceptable(header, postChangePassword(by, old, new).users)

\* A member changed the password, and the token of that account is still accepted.
C10_Witness ==
  /\ resp.op = "change-password"
  /\ resp.code = 200
  /\ \E c \in resp.user, header \in Headers :
       /\ ~header.token.payload.isGuest
       /\ header.token.payload.userId = c.userId
       /\ users[c.userId].password # DefaultPassword
       /\ authMiddleware(header).next

-----------------------------------------------------------------------------
(* Properties of the list endpoints, under SpecList.  A list request is     *)
(* handled from a state with listResp = NoList; the properties state, for   *)
(* every such state and every request, what the handler answers.            *)

\* The query-string value is a positive integer written in digits.
PositiveInteger(s) == s \in {"1", "2", "3", "101"}

\* The page and the limit the request asks for (absent: the defaults).
RequestedPage(q) == IF q.page = "" THEN 1 ELSE ToNumber(q.page)
RequestedLimit(q) == IF q.limit = "" THEN DefaultLimit ELSE ToNumber(q.limit)

\* C11: every list request that is accepted (answered 200) gets
\* totalPages = ceil(totalCount / limit), that is the least number of pages of
\* size limit that hold totalCount items, and at most limit items.
C11_Original ==
  listResp = NoList =>
    \A op \in ListRouters, q \in ListQueries :
      LET r == listHandler(op, q)
          limit == RequestedLimit(q)
      IN r.code = 200 =>
           /\ r.total = countDocuments(IF op = "feedback" THEN q.rating ELSE "")
           /\ r.totalPages * limit >= r.total
           /\ (r.totalPages - 1) * limit < r.total
           /\ Len(r.items) <= limit

\* C12: on every list endpoint a store query is made only with a page and a
\* limit that are positive integers, the limit at most 100: any other request
\* is rejected with 400, or its limit is capped.
C12_Original ==
  listResp = NoList =>
    \A op \in ListRouters, q \in ListQueries :
      LET r == listHandler(op, q) IN
      /\ \A sq \in r.query : sq.skip >= 0 /\ 1 <= sq.limit /\ sq.limit <= MaxLimit
      /\ (\/ ~(q.page = "" \/ PositiveInteger(q.page))
          \/ ~(q.limit = "" \/ PositiveInteger(q.limit))) => r.code = 400

\* C13: on every list endpoint a sort parameter that names no field of the
\* collection, or an order other than 'asc' and 'desc', is answered 400; it is
\* neither used nor replaced by a default.
C13_Original ==
  listResp = NoList =>
    \A op \in ListRouters, q \in ListQueries :
      (q.sort = "bogus" \/ q.order \notin {"", "asc", "desc"}) =>
        LET r == listHandler(op, q) IN
        /\ r.code = 400
        /\ r.query = {}

\* The items of page p of size l of a sequence.
PageOf(all, p, l) ==
  SubSeq(all, (p - 1) * l + 1, IF p * l > Len(all) THEN Len(all) ELSE p * l)

\* C14: every accepted list query is given the offset (page-1) * limit, and
\* returns exactly the elements at positions (page-1)*limit .. page*limit-1 of
\* the filtered, sorted sequence; so the first two pages of an unchanged store,
\* put one after the other, are the start of that sequence.
C14_Original ==
  listResp = NoList =>
    \A op \in ListRouters, q \in ListQueries :
      LET r == listHandler(op, q)
          p == RequestedPage(q)
          l == RequestedLimit(q)
      IN r.code = 200 =>
           \A sq \in r.query :
             LET all == Sorted(sq.filter, sq.sort, sq.dir)
                 next == listHandler(op, [q EXCEPT !.page = "2"])
             IN /\ sq.skip = (p - 1) * l
                /\ r.items = PageOf(all, p, l)
                /\ (p = 1 /\ next.code = 200) =>
                     r.items \o next.items =
                       SubSeq(all, 1, IF 2 * l > Len(all) THEN Len(all) ELSE 2 * l)

\* The histogram has exactly the five keys, each with the number of the given
\* ratings that equal it.
FiveKeyHistogram(h, ratings) ==
  /\ DOMAIN h = HistogramKeys
  /\ \A k \in HistogramKeys :
       h[k] = Cardinality({i \in 1..Len(ratings) : ratings[i] = k})

\* C15: the rating histogram in the answers of the feedback list and of the
\* feedback stats summary has exactly the keys 1..5, each with the count of the
\* entries of that rating, 0 when there is none.
C15_Original ==
  listResp = NoList =>
    /\ \A q \in ListQueries :
         LET r == getFeedback(q) IN
         r.code = 200 => /\ r.histogram # {}
                         /\ \A h \in r.histogram : FiveKeyHistogram(h, docs)
    /\ \A start \in 1..(MaxDocs + 1) :
         \A h \in getFeedbackStats(start).histogram :
           FiveKeyHistogram(h, SubSeq(docs, start, Len(docs)))

-----------------------------------------------------------------------------
(* Password change, under Spec.                                             *)

\* The account whose holder the middleware attached to the response.
Requester(r) == (CHOOSE c \in r.user : TRUE).userId

\* C17: a change-password request of an authenticated account holder with a
\* valid body is answered 401 and leaves the account as it was when oldPassword
\* does not match; when it matches it is answered 200, and from then on a login
\* with newPassword succeeds and a login with oldPassword fails.
C17_Original ==
  [][\A header \in Headers, old \in Passwords, new \in Passwords,
        id \in UserIds, email \in {AdminEmail, OtherEmail} :
       ( /\ ChangePassword(header, old, new)
         /\ resp'.ran
         /\ resp'.code # 404
         /\ id = Requester(resp')
         /\ email = users[id].email )
       => IF ~comparePassword(users[id], old)
          THEN resp'.code = 401 /\ users' = users
          ELSE /\ resp'.code = 200
               /\ (postLogin(email, new).resp.code = 200)'
               /\ (postLogin(email, old).resp.code # 200)'
    ]_vars

-----------------------------------------------------------------------------
(* Response bodies, under Spec.                                             *)

\* The envelope {success, message?, data?, errors?}.
Envelope == {"success", "message", "data", "errors"}

\* C18: every response the server sends, on success and on every error path,
\* carries a 'success' field and no top-level field outside the envelope
\* {success, message, data, errors}.
C18_Original ==
  resp # Idle =>
    \A nodeEnv \in NodeEnvs :
      /\ "success" \in bodyKeys(resp, nodeEnv)
      /\ bodyKeys(resp, nodeEnv) \subseteq Envelope

\* The failures the specification groups as AuthenticationFailed.
AuthenticationFailures ==
  {"NoToken", "InvalidToken", "ExpiredToken", "UserNotFound", "InvalidCredentials"}

\* What a client sees of a failure: the status and the message.
Seen(r) == [code |-> r.code, message |-> message(r)]

\* C19: the authentication failures are answered 401 and cannot be told apart:
\* two requests the middleware refuses for different ones of these reasons get
\* the same status and body, and a failing login gets the same status and body
\* whether or not an account with its email exists.
C19_Original ==
  resp = Idle =>
    /\ \A h1, h2 \in Headers :
         LET r1 == postLogout(h1).resp
             r2 == postLogout(h2).resp
         IN r1.error \in AuthenticationFailures /\ r2.error \in AuthenticationFailures
              => r1.code = 401 /\ Seen(r1) = Seen(r2)
    /\ \A e1, e2 \in LoginEmails, password \in Passwords :
         LET found == findByEmail(toLowerCase(e1)) IN
         ( /\ isEmail(e1) /\ isEmail(e2)
           /\ found # {}
           /\ \A id \in found : ~comparePassword(users[id], password)
           /\ findByEmail(toLowerCase(e2)) = {} )
         => /\ postLogin(e1, password).resp.code = 401
            /\ Seen(postLogin(e1, password).resp) = Seen(postLogin(e2, password).resp)

-----------------------------------------------------------------------------
(* Status changes and issued tokens, under Spec.                            *)

\* The headers that carry a member's token of account id that verifies now.
TokensOf(id) ==
  {header \in Headers :
     /\ Verifies(header)
     /\ ~header.token.payload.isGuest
     /\ header.token.payload.userId = id}

\* PUT /api/admin/users/:id/status was answered 200 in this step.
StatusChanged == resp = Idle /\ resp'.op = "admin" /\ resp'.ran /\ resp'.code = 200

\* C25: the status of an account governs the tokens already issued for it.  While
\* the status is inactive or suspended, every request bearing a token of the
\* account is refused by the Auth Gate with 403, the admin who set the status
\* included; once the status is active again the token is accepted, unless the
\* account is locked, in which case the request is refused with 423.
C25_StatusGovernsIssuedTokens ==
  \A id \in DOMAIN users : \A header \in TokensOf(id) :
    LET gate == authMiddleware(header) IN
    IF users[id].status # "active" THEN ~gate.next /\ gate.code = 403
    ELSE IF Locked(users[id]) THEN ~gate.next /\ gate.code = 423
    ELSE gate.next

\* An admin set their own account to inactive or suspended, and the token the
\* request came with is now refused with 403.
C25_Witness ==
  /\ resp.op = "admin" /\ resp.ran /\ resp.code = 200
  /\ \E c \in resp.user :
       /\ users[c.userId].status # "active"
       /\ TokensOf(c.userId) # {}
       /\ \A header \in TokensOf(c.userId) : authMiddleware(header).code = 403

\* C25 as stated: after a status change to inactive or suspended the tokens of
\* the account are refused with 403, and after a change back to active they are
\* accepted.
C25_Original ==
  [][StatusChanged =>
       \A id \in DOMAIN users, header \in Headers :
         (users'[id].status # users[id].status /\ header \in TokensOf(id))
           => (IF users[id].status # "active"
               THEN ~authMiddleware(header).next /\ authMiddleware(header).code = 403
               ELSE authMiddleware(header).next)'
    ]_vars

-----------------------------------------------------------------------------
(* The signing key, under Spec.                                             *)

\* C26: whether or not JWT_SECRET is set, no login is answered 500, and every
\* token a login returns is accepted by the middleware's jwt.verify until it
\* expires.
C26_Original ==
  resp = Idle =>
    \A email \in LoginEmails, password \in LoginPasswords :
      LET o == postLogin(email, password) IN
      /\ o.resp.code # 500
      /\ \A t \in o.resp.token :
           \A clock \in now..(t.payload.exp - 1) :
             jwt_verify(t, MiddlewareSecret, clock) = "ok"

-----------------------------------------------------------------------------
(* The profile route, under Spec.                                           *)

\* C22: for every request that passed the Auth Gate and the Role Gate, GET
\* /api/admin/profile answers 200 with the details of the account the Auth Gate
\* attached to the request.
C22_Original ==
  resp = Idle =>
    \A header \in Headers :
      routerGates(header).next =>
        LET o == getProfile(header) IN
        /\ o.resp.code = 200
        /\ o.data = {c.userId : c \in routerGates(header).user}

-----------------------------------------------------------------------------
(* Boot seeding, under Spec.                                                *)

\* The accounts of the default admin email in a User collection.
Admins(store) == {id \in DOMAIN store : store[id].email = AdminEmail}

\* C24: seeding is an idempotent bootstrap.  Whatever the User collection holds,
\* after seedAdminUser the account admin@abhaya.com exists with the default
\* password, failed-attempt counter 0 and no lockUntil (so a locked or partly
\* failed admin account is unlocked), and seeding again changes nothing.
C24_SeedIdempotent ==
  LET seeded == seedAdminUserIn(users) IN
  /\ Admins(seeded) # {}
  /\ \A id \in Admins(seeded) :
       /\ seeded[id].password = DefaultPassword
       /\ seeded[id].loginAttempts = 0
       /\ seeded[id].lockUntil = 0
       /\ ~Locked(seeded[id])
  /\ seedAdminUserIn(seeded) = seeded
  /\ \A id \in DOMAIN users \ Admins(users) : seeded[id] = users[id]

\* The seed is about to run on an admin account that five failed logins locked.
C24_Witness ==
  /\ resp = Idle
  /\ \E id \in Admins(users) :
       /\ Locked(users[id])
       /\ hist[id].pwFails = MaxLoginAttempts
       /\ seedAdminUserIn(users)[id] # users[id]

-----------------------------------------------------------------------------
(* Properties of interleaved requests, under SpecTasks.                     *)

\* The tasks that have answered a request of the kind `op`.
Answered(op) == {t \in TaskIds : tasks[t].pc = "done" /\ tasks[t].op = op}

\* No two accounts share an email.
UniqueEmails ==
  \A i, j \in DOMAIN users : i # j => users[i].email # users[j].email

\* C16: a valid POST /auth/register answers 409 and creates nothing when an
\* account with the email (compared case-insensitively) exists, and otherwise
\* creates exactly one account and answers 201 with a token; whatever the
\* interleaving of register requests, no two accounts share an email.
C16_Original ==
  /\ \A t \in Answered("register") :
       tasks[t].code # 400 =>
         /\ tasks[t].code \in {201, 409}
         /\ tasks[t].code = 409 => ~tasks[t].created
         /\ tasks[t].code = 201 =>
              /\ tasks[t].created
              /\ tasks[t].token # {}
              /\ Cardinality({id \in DOMAIN users : users[id].email = tasks[t].email}) = 1
  /\ UniqueEmails

\* The document a login task read with findOne.
Snapshot(t) == CHOOSE u \in tasks[t].snap : TRUE

\* C20: the counter update of a failed login is last-write-wins: the write sets
\* the stored counter to one more than the counter the task read, whatever the
\* store holds by then and without any version check, so a failure counted by a
\* request in between is lost.
C20_LastWriteWins ==
  [][\A t \in TaskIds :
       tasks[t].pc = "inc" /\ tasks'[t].pc = "done"
         => users'[tasks[t].id].loginAttempts = Snapshot(t).loginAttempts + 1
    ]_vars

\* Interleaved failed logins were under-counted: the account has been refused
\* five wrong passwords in a row, no request is in progress, and the stored
\* counter is below five and the account is not locked.
C20_Witness ==
  /\ \A t \in TaskIds : tasks[t].pc \in {"idle", "done"}
  /\ \E id \in DOMAIN users :
       /\ hist[id].pwFails = MaxLoginAttempts
       /\ users[id].loginAttempts < MaxLoginAttempts
       /\ ~Locked(users[id])

-----------------------------------------------------------------------------
(* Properties of the content routes, under SpecContent.  A request is       *)
(* handled from a state with resp = Idle; the properties state, for every   *)
(* request, what its handler does from that state.                          *)

\* What C21 asks of the outcome of a content request whose body fails the
\* validation of its route: the store is as it was, and the answer is 400
\* unless a gate refused the request before the validation.
Rejected(header, o) ==
  /\ o.items = items
  /\ routerGates(header).next => o.resp.code = 400 /\ o.resp.ran

\* C21: validation errors are caught at the boundary.  A create, update,
\* status-patch or bulk-delete request on news or videos whose body fails the
\* validation of its route is answered 400 and leaves the collection as it
\* was, whatever the :id and the rest of the request; so are a register, a
\* login and a change-password request whose body fails validation.
C21_ValidationAtBoundary ==
  resp = Idle =>
    /\ \A coll \in Collections, header \in ContentHeaders :
         /\ \A body \in Bodies(coll) :
              ~validateBody(coll, body) =>
                /\ Rejected(header, postItem(coll, header, body))
                /\ \A id \in RequestIds : Rejected(header, putItem(coll, header, id, body))
         /\ \A status \in ItemStatuses, id \in RequestIds :
              status \notin {"published", "draft"} =>
                Rejected(header, patchStatus(coll, header, id, status))
         /\ \A body \in BulkBodies :
              ~validateBulk(body) => Rejected(header, postBulkDelete(coll, header, body))
    /\ \A email \in LoginEmails, password \in LoginPasswords :
         ~validateLogin(email, password) =>
           /\ postLogin(email, password).resp.code = 400
           /\ postLogin(email, password).users = users
    /\ \A email \in RegisterEmails, password \in RegisterPasswords, role \in RegisterRoles :
         ~validateRegister(email, password, role) =>
           /\ registerFind(email, password, role).pc = "done"
           /\ registerFind(email, password, role).code = 400
    /\ \A header \in ContentHeaders, old \in OldPasswords, new \in NewPasswords :
         (authMiddleware(header).next /\ (old = "" \/ Len(new) < 6)) =>
           /\ postChangePassword(header, old, new).resp.code = 400
           /\ postChangePassword(header, old, new).users = users

\* A request that passed the gates was answered 400 for its body, with documents
\* in the collections that it could have changed.
C21_Witness ==
  /\ resp.ran
  /\ resp.code = 400
  /\ resp.error = "ValidationFailed"
  /\ resp.op \in {"create", "update", "status", "bulk-delete"}
  /\ \E id \in DOMAIN items : items[id].alive

\* The ids of the documents of a collection in a store.
Alive(store, coll) == {id \in DOMAIN store : store[id].alive /\ store[id].coll = coll}

\* The store differs from the current one at most in the documents of these ids.
SameExcept(store, ids) ==
  /\ DOMAIN store = DOMAIN items
  /\ \A id \in DOMAIN items \ ids : store[id] = items[id]

\* The requests that pass the two gates.
AdminHeaders == {header \in ContentHeaders : routerGates(header).next}

\* C28: deletion removes exactly what was addressed.  DELETE /:id answers 400 and
\* changes nothing when the id is not a well-formed ObjectId; otherwise it
\* removes the document with that id and answers 200, or answers 404 and changes
\* nothing when the collection has no such document.  POST /bulk-delete answers
\* 400 and removes nothing when ids is not an array of well-formed ObjectIds;
\* otherwise it removes exactly the documents of the collection whose id is in
\* the list, reports their number as deletedCount, and leaves every other
\* document as it was.
C28_DeletionExact ==
  resp = Idle =>
    \A coll \in Collections, header \in AdminHeaders :
      /\ \A id \in RequestIds :
           LET o == deleteItem(coll, header, id) IN
           IF ~isValidObjectId(id) THEN o.resp.code = 400 /\ o.items = items
           ELSE IF id \in Stored(coll)
           THEN /\ o.resp.code = 200
                /\ Alive(o.items, coll) = Stored(coll) \ {id}
                /\ SameExcept(o.items, {id})
           ELSE o.resp.code = 404 /\ o.items = items
      /\ \A body \in BulkBodies :
           LET o == postBulkDelete(coll, header, body) IN
           IF ~validateBulk(body) THEN o.resp.code = 400 /\ o.items = items
           ELSE /\ o.resp.code = 200
                /\ Alive(o.items, coll) = Stored(coll) \ body.ids
                /\ o.deletedCount = Cardinality(Stored(coll) \cap body.ids)
                /\ SameExcept(o.items, Stored(coll) \cap body.ids)

\* A bulk delete removed a document and left another one in place.
C28_Witness ==
  /\ resp.op = "bulk-delete" /\ resp.code = 200
  /\ \E id \in DOMAIN items : ~items[id].alive
  /\ \E id \in DOMAIN items : items[id].alive

\* C28 as stated: DELETE answers 200 and removes the document, or 404 when it
\* does not exist; bulk-delete removes exactly the stored documents whose id is
\* in the list.
C28_Original ==
  resp = Idle =>
    \A coll \in Collections, header \in AdminHeaders :
      /\ \A id \in RequestIds :
           LET o == deleteItem(coll, header, id) IN
           IF id \in Stored(coll)
           THEN /\ o.resp.code = 200
                /\ Alive(o.items, coll) = Stored(coll) \ {id}
                /\ SameExcept(o.items, {id})
           ELSE o.resp.code = 404 /\ o.items = items
      /\ \A body \in BulkBodies :
           body.isArray =>
             LET o == postBulkDelete(coll, header, body) IN
             /\ Alive(o.items, coll) = Stored(coll) \ body.ids
             /\ o.deletedCount = Cardinality(Stored(coll) \cap body.ids)
             /\ SameExcept(o.items, Stored(coll) \cap body.ids)

-----------------------------------------------------------------------------
(* Properties of the interleaved content requests (SpecItemTasks).           *)

\* C27: a featured toggle answered 200 negates the flag the store holds and
\* changes nothing else, so that no toggle is lost when two of them interleave.
C27_Original ==
  [][\A t \in TaskIds :
       (tasks[t].pc = "toggle" /\ tasks'[t].pc = "done" /\ tasks'[t].code = 200)
       => /\ items'[tasks[t].id].featured = ~items[tasks[t].id].featured
          /\ items' = [items EXCEPT ![tasks[t].id].featured = ~@]]_vars

====
